---- MODULE Spec2Model ----
(***************************************************************************)
(* SoDeLe: weather-data ingestion (read_in_dat_file), the two WeatherData  *)
(* operations (adjust_time_stamp, recalculate_dni) and the multi-plant     *)
(* orchestration of simulate_pv_plants with its aggregation.               *)
(*                                                                         *)
(* Conventions of the model                                                *)
(*   - Python's None is the empty tuple <<>>, a present value x is <<x>>.  *)
(*   - A pandas Timestamp is [t |-> minutes since 2015-01-01 00:00 on its  *)
(*     own wall clock, off |-> None or <<UTC offset in minutes>>].         *)
(*   - A float is [tag |-> "num" | "nan" | "negzero" | "inf", v |-> Int].  *)
(*   - lossesIrradiation is a multiple of 10 percent and inverterEta a     *)
(*     multiple of 0.1, so irradiance scaled by (1 - lossesIrradiation/100)*)
(*     and power scaled by inverterEta are kept in tenths and stay         *)
(*     integral; a quotient is the reduced fraction [num, den].            *)
(***************************************************************************)
EXTENDS Integers, Sequences, FiniteSets, TLC

VARIABLES
    pc,            \* position inside simulate_pv_plants
    weatherData,   \* sodele_input.weatherData (flags, entry, cached frame)
    plants,        \* sodele_input.photovoltaicPlants
    keep_files,    \* sodele_input.keep_files
    idx,           \* currentIdx of the per-plant loop (1-based here)
    log,           \* messages handed to logger.warning
    calls,         \* the dataset operations and collaborator calls made, in order
    energy_results,  \* None or <<DataframeResults>>
    summary_results, \* None or <<SummaryResults>>
    result,        \* None or <<SodeleResults>> returned to the caller
    error,         \* None or <<exception that left simulate_pv_plants>>
    input0,        \* the request as it was handed in (history)
    engine_calls,  \* the plants (by position) the physics engine was invoked for
    metrics,       \* None or <<what the derived-metric accessors of a plant last returned>>
    datFile,       \* the fixed-format file handed to read_in_dat_file
    rpc,           \* position inside read_in_dat_file
    metadata,      \* read_in_dat_file's metadata dict
    scan,          \* header scan: [line, last_line, column_names]
    readResult,    \* None or <<WeatherData>> returned by read_in_dat_file
    readError      \* None or <<exception that left read_in_dat_file>>

vars == <<pc, weatherData, plants, keep_files, idx, log, calls, energy_results,
          summary_results, result, error, input0, engine_calls, metrics, datFile, rpc, metadata,
          scan, readResult, readError>>

simVars == <<pc, weatherData, plants, keep_files, idx, log, calls, energy_results,
             summary_results, result, error, input0, engine_calls, metrics>>

readVars == <<datFile, rpc, metadata, scan, readResult, readError>>

None == <<>>
Some(x) == <<x>>

(***************************************************************************)
(* Bounds of the model.                                                    *)
(***************************************************************************)
MaxLen == 2
MaxPlants == 2

(***************************************************************************)
(* Floats as the code meets them.                                          *)
(***************************************************************************)
Num(x) == [tag |-> "num", v |-> x]
NaN == [tag |-> "nan", v |-> 0]
NegZero == [tag |-> "negzero", v |-> 0]
PosInf == [tag |-> "inf", v |-> 0]
FloatMax == 9

IsNaN(x) == x.tag = "nan"

\* IEEE equality with -0.0: true for 0.0 and for -0.0.
EqNegZero(x) == x.tag = "negzero" \/ (x.tag = "num" /\ x.v = 0)

Range(s) == {s[i] : i \in DOMAIN s}

(***************************************************************************)
(* WeatherData (interfaces/weather_data.py).                               *)
(***************************************************************************)

\* pd.to_datetime on the timeStamps column: one DatetimeIndex with a single
\* time zone (an empty column gives a naive, empty index).
to_datetime(timeStamps) ==
    [tz |-> IF Len(timeStamps) = 0 THEN None ELSE timeStamps[1].off,
     values |-> [i \in 1..Len(timeStamps) |-> timeStamps[i].t]]

\* DatetimeIndex.to_list(): one Timestamp per entry, each carrying the index's zone.
to_list(index) ==
    [i \in 1..Len(index.values) |-> [t |-> index.values[i], off |-> index.tz]]

\* the shift taken as hours instead of minutes
PlusTimedelta_hours(index, m) ==
    [tz |-> index.tz, values |-> [i \in 1..Len(index.values) |-> index.values[i] + 60 * m]]

\* index + pd.Timedelta(minutes=m)
PlusTimedelta(index, m) ==
    [tz |-> index.tz, values |-> [i \in 1..Len(index.values) |-> index.values[i] + m]]

\* WeatherData.generate_df: the frame is rebuilt from the entry, indexed by its timeStamps.
\* One column per field of the entry (model_dump), under the field's name.
generate_df(entry) ==
    Some([c \in DOMAIN entry \cup {"index"} |->
             IF c = "index" THEN to_datetime(entry.timeStamps) ELSE entry[c]])

\* WeatherData(...) with model_post_init; site is altitude, kind, years, latitude,
\* longitude and tz.
NewWeatherData(site, adjust, recalc, shift, entry) ==
    [site |-> site,
     adjustTimestamp |-> adjust, recalculateDNI |-> recalc, timeshiftInMinutes |-> shift,
     weatherData |-> entry, df |-> generate_df(entry)]

\* adjust_time_stamp without its closing generate_df(): the frame keeps the old index
adjust_time_stamp_stale(wd) ==
    IF wd.df = None THEN [raised |-> None, wd |-> wd]
    ELSE LET new_time_index == PlusTimedelta(wd.df[1].index, wd.timeshiftInMinutes)
         IN  IF Len(new_time_index.values) = 0
             THEN [raised |-> Some("IndexError"), wd |-> wd]
             ELSE LET entry == [wd.weatherData EXCEPT !.timeStamps = to_list(new_time_index)]
                  IN  [raised |-> None, wd |-> [wd EXCEPT !.weatherData = entry]]

\* the hour of the day of each entry of a DatetimeIndex
hours_of(index) == [i \in 1..Len(index.values) |-> (index.values[i] \div 60) % 24]

\* adjust_time_stamp that also rebuilds the stored hour list from the new index
adjust_time_stamp_with_hours(wd) ==
    IF wd.df = None THEN [raised |-> None, wd |-> wd]
    ELSE LET new_time_index == PlusTimedelta(wd.df[1].index, wd.timeshiftInMinutes)
         IN  IF Len(new_time_index.values) = 0
             THEN [raised |-> Some("IndexError"), wd |-> wd]
             ELSE LET entry == [c \in DOMAIN wd.weatherData |->
                                   IF c = "timeStamps" THEN to_list(new_time_index)
                                   ELSE IF c = "hour" THEN hours_of(new_time_index)
                                   ELSE wd.weatherData[c]]
                  IN  [raised |-> None,
                       wd |-> [wd EXCEPT !.weatherData = entry, !.df = generate_df(entry)]]

\* the shift applied to the index the dataset was constructed with, not to the
\* index it has now
adjust_time_stamp_from_first(wd) ==
    IF wd.df = None THEN [raised |-> None, wd |-> wd]
    ELSE LET new_time_index ==
                 PlusTimedelta(input0.weatherData.df[1].index, wd.timeshiftInMinutes)
         IN  IF Len(new_time_index.values) = 0
             THEN [raised |-> Some("IndexError"), wd |-> wd]
             ELSE LET entry == [wd.weatherData EXCEPT !.timeStamps = to_list(new_time_index)]
                  IN  [raised |-> None,
                       wd |-> [wd EXCEPT !.weatherData = entry, !.df = generate_df(entry)]]

\* WeatherData.adjust_time_stamp: [raised, wd].  new_time_index[0] raises IndexError
\* on an empty index, before anything is stored.
adjust_time_stamp(wd) ==
    IF wd.df = None THEN [raised |-> None, wd |-> wd]
    ELSE LET new_time_index == PlusTimedelta(wd.df[1].index, wd.timeshiftInMinutes)
         IN  IF Len(new_time_index.values) = 0
             THEN [raised |-> Some("IndexError"), wd |-> wd]
             ELSE LET entry == [wd.weatherData EXCEPT !.timeStamps = to_list(new_time_index)]
                  IN  [raised |-> None,
                       wd |-> [wd EXCEPT !.weatherData = entry, !.df = generate_df(entry)]]

\* dni.fillna(0.0)
fillna(x) == IF IsNaN(x) THEN Num(0) ELSE x

\* np.nan_to_num(dni, nan=0.0): NaN to 0.0, +inf to the largest finite float.
nan_to_num(x) ==
    IF IsNaN(x) THEN Num(0) ELSE IF x.tag = "inf" THEN Num(FloatMax) ELSE x

\* the replacement of -0.0 left out
replace_neg_zero_skipped(x) == x

\* dni[dni == -0.0] = 0.0
replace_neg_zero(x) == IF EqNegZero(x) THEN Num(0) ELSE x

\* The three cleaning lines of recalculate_dni, elementwise.
clean_dni(raw) ==
    [i \in 1..Len(raw) |-> replace_neg_zero(nan_to_num(fillna(raw[i])))]

\* recalculate_dni without its closing generate_df(): the frame keeps the old dni
recalculate_dni_stale(wd, raw) ==
    IF wd.df = None THEN wd
    ELSE [wd EXCEPT !.weatherData = [wd.weatherData EXCEPT !.dni = clean_dni(raw)]]

\* WeatherData.recalculate_dni, given the series pvlib.irradiance.dni returned.
recalculate_dni(wd, raw) ==
    IF wd.df = None THEN wd
    ELSE LET entry == [wd.weatherData EXCEPT !.dni = clean_dni(raw)]
         IN  [wd EXCEPT !.weatherData = entry, !.df = generate_df(entry)]

\* What pvlib.irradiance.dni may hand back for one hour.
DniOut == {NaN, NegZero, Num(0), Num(2), PosInf}

\* pvlib.irradiance.dni(ghi, dhi, zenith): one value per hour of the frame.
DniSeries(n) == [1..n -> DniOut]

(***************************************************************************)
(* PhotovoltaicPlant (interfaces/pv_specifics.py) and the parameter lookup.*)
(***************************************************************************)

\* PhotovoltaicPlant(...): the configuration; the three result fields start as None.
NewPlant(cfg) ==
    [cfg |-> cfg, energyProfile |-> None, surfaceArea |-> None, systemKWP |-> None]

\* every selector other than 1 taken as the CEC database
get_database_paths_lenient(modules_database_type) ==
    IF modules_database_type = 1 THEN [raised |-> None, path |-> "Sandia_Modules"]
    ELSE [raised |-> None, path |-> "CEC_Modules"]

\* misc/database.py get_database_paths: [raised, path] of the modules database.
get_database_paths(modules_database_type) ==
    IF modules_database_type = 1 THEN [raised |-> None, path |-> "Sandia_Modules"]
    ELSE IF modules_database_type = 2 THEN [raised |-> None, path |-> "CEC_Modules"]
    ELSE [raised |-> Some("ValueError: Unknown modules database type: "
                          \o ToString(modules_database_type)),
          path |-> ""]

\* pvlib.pvsystem.retrieve_sam(path): the records of a database, by name.
\* rated current, rated voltage and area are the Sandia fields Impo, Vmpo, Area
\* and the CEC fields I_mp_ref, V_mp_ref, A_c.
retrieve_sam(path) ==
    IF path = "Sandia_Modules"
    THEN [name \in {"SandiaA"} |-> [Impo |-> 5, Vmpo |-> 40, Area |-> 2]]
    ELSE IF path = "CEC_Modules"
    THEN [name \in {"CecB"} |-> [I_mp_ref |-> 8, V_mp_ref |-> 30, A_c |-> 3]]
    ELSE [name \in {"InvA"} |-> [Pnt |-> 1]]

\* PhotovoltaicPlant.get_modules_and_inverters: [raised, module, inverter].
get_modules_and_inverters(cfg) ==
    LET paths == get_database_paths(cfg.modulesDatabaseType)
        PV_modules == retrieve_sam(paths.path)
        PV_inverters == retrieve_sam("CEC_Inverters")
        none == [raised |-> None, module |-> None, inverter |-> None]
    IN  IF paths.raised # None THEN [none EXCEPT !.raised = paths.raised]
        ELSE IF cfg.moduleName \notin DOMAIN PV_modules
        THEN [none EXCEPT !.raised = Some("KeyError: " \o cfg.moduleName)]
        ELSE IF cfg.inverterName \notin DOMAIN PV_inverters
        THEN [none EXCEPT !.raised = Some("KeyError: " \o cfg.inverterName)]
        ELSE [raised |-> None,
              module |-> Some(PV_modules[cfg.moduleName]),
              inverter |-> Some(PV_inverters[cfg.inverterName])]

(***************************************************************************)
(* calc_pv_power_profile (core/pv_simulation.py).                          *)
(***************************************************************************)

\* (1 - losses_irradiation / 100) * series, in tenths: a new series.
scale_irradiation(losses_irradiation, x) ==
    IF x.tag = "num" THEN Num((10 - losses_irradiation \div 10) * x.v) ELSE x

\* The weather frame handed to the engine: built by pd.concat from new series.
engine_weather(df, cfg) ==
    [h \in 1..Len(df.ghi) |->
        [ghi |-> scale_irradiation(cfg.lossesIrradiation, Num(df.ghi[h])),
         dni |-> scale_irradiation(cfg.lossesIrradiation, df.dni[h]),
         dhi |-> scale_irradiation(cfg.lossesIrradiation, Num(df.dhi[h])),
         temp_air |-> df.temp_air[h],
         albedo |-> cfg.albedo]]

\* pvlib ModelChain.run_model: mc.results.dc["p_mp"], a deterministic function of
\* the system and the weather frame it is given; a missing input gives a missing output.
run_model(cfg, weather) ==
    [h \in 1..Len(weather) |->
        IF weather[h].ghi.tag = "num" /\ weather[h].dni.tag = "num" /\ weather[h].dhi.tag = "num"
        THEN Num(cfg.modulesPerString * cfg.stringsPerInverter
                 * (weather[h].ghi.v + weather[h].dni.v + weather[h].dhi.v))
        ELSE NaN]

\* pvlib.inverter.sandia, in tenths: the night tare -Pnt when there is no DC power.
sandia(p_mp, inverter) ==
    IF p_mp.tag # "num" THEN p_mp
    ELSE IF p_mp.v <= 0 THEN Num(-10 * inverter.Pnt) ELSE Num(10 * p_mp.v)

\* p_mp * inverterEta, inverterEta in tenths.
single_eta(p_mp, eta) == IF p_mp.tag # "num" THEN p_mp ELSE Num(p_mp.v * eta)

\* numberOfInverters * value
times_inverters(n, x) == IF x.tag # "num" THEN x ELSE Num(n * x.v)

\* missing values filled, negative values never replaced
clean_power_unclipped(x, useStandByPowerInverter) ==
    IF x.tag = "num" THEN x.v ELSE 0

\* pv_power_profile.fillna(0), then pv_power_profile[pv_power_profile < 0] = 0
\* unless the standby power is kept: a plain number per hour.
clean_power(x, useStandByPowerInverter) ==
    LET filled == IF x.tag = "num" THEN x.v ELSE 0
    IN  IF ~useStandByPowerInverter /\ filled < 0 THEN 0 ELSE filled

RECURSIVE SumSeq(_)
SumSeq(s) == IF Len(s) = 0 THEN 0 ELSE s[1] + SumSeq(Tail(s))

Abs(a) == IF a < 0 THEN -a ELSE a

RECURSIVE Gcd(_, _)
Gcd(a, b) == IF b = 0 THEN a ELSE Gcd(b, a % b)

\* a / b as a reduced fraction with den >= 0; den = 0 is inf (num # 0) or nan (num = 0)
Ratio(a, b) ==
    IF b = 0 THEN [num |-> IF a > 0 THEN 1 ELSE IF a < 0 THEN -1 ELSE 0, den |-> 0]
    ELSE LET g == Gcd(Abs(a), Abs(b))
             sgn == IF b < 0 THEN -1 ELSE 1
         IN  [num |-> sgn * (a \div g), den |-> Abs(b) \div g]

\* x / y for two fractions, reduced crosswise before multiplying
RatioDiv(x, y) ==
    IF y.num = 0 \/ x.den = 0 \/ y.den = 0 THEN Ratio(x.num * y.den, x.den * y.num)
    ELSE LET g1 == Gcd(Abs(x.num), Abs(y.num))
             g2 == Gcd(y.den, x.den)
         IN  Ratio((x.num \div (IF g1 = 0 THEN 1 ELSE g1)) * (y.den \div g2),
                   (x.den \div g2) * (y.num \div (IF g1 = 0 THEN 1 ELSE g1)))

HoursPerYear == 8760
WhPerKWh == 1000

\* Irradiance is kept in tenths and the inverter factor in tenths, so one W of AC
\* power, and one Wh of energy, is 100 units of the model.
UnitsPerWh == 100

\* n_modules, line 124
n_modules(cfg) == cfg.numberOfInverters * cfg.stringsPerInverter * cfg.modulesPerString

\* modules_power_rated, lines 144-151 [W_peak]: computed, and not returned
modules_power_rated(cfg, module) ==
    IF cfg.modulesDatabaseType = 1 THEN module.Impo * module.Vmpo * n_modules(cfg)
    ELSE module.I_mp_ref * module.V_mp_ref * n_modules(cfg)

\* module_surface_area, lines 148 and 152 [m^2]
module_surface_area(cfg, module) ==
    IF cfg.modulesDatabaseType = 1 THEN module.Area * n_modules(cfg)
    ELSE module.A_c * n_modules(cfg)

\* lines 126-141: the cleaned AC power profile [W]
ac_power_profile(cfg, p_mp, inverter) ==
    [h \in 1..Len(p_mp) |->
        clean_power(
            times_inverters(cfg.numberOfInverters,
                IF cfg.useInverterDatabase
                THEN sandia(p_mp[h], inverter)
                ELSE single_eta(p_mp[h], cfg.inverterEta)),
            cfg.useStandByPowerInverter)]

\* calc_pv_power_profile: [raised, results], results the PvPlantResults dict.
calc_pv_power_profile(wd, cfg) ==
    LET lookup == get_modules_and_inverters(cfg)
        none == [raised |-> None, results |-> None]
    IN  IF lookup.raised # None THEN [none EXCEPT !.raised = lookup.raised]
        ELSE IF cfg.moduleInstallation \notin 1..4
        THEN [none EXCEPT !.raised = Some("KeyError: " \o ToString(cfg.moduleInstallation))]
        ELSE IF wd.df = None
        THEN [none EXCEPT !.raised = Some("ValueError: No weather data available!")]
        ELSE
        LET current_module == lookup.module[1]
            current_inverter == lookup.inverter[1]
            weather == engine_weather(wd.df[1], cfg)
            p_mp == run_model(cfg, weather)
            pv_power_profile == ac_power_profile(cfg, p_mp, current_inverter)
            pv_energy_profile ==
                [h \in 1..Len(pv_power_profile) |->
                    (pv_power_profile[h] * HoursPerYear) \div Len(pv_power_profile)]
        IN  [raised |-> None,
             results |-> Some([energyProfile |-> pv_energy_profile,
                               surfaceArea |-> module_surface_area(cfg, current_module),
                               sumOfEnergyPerYear |->
                                   Ratio(SumSeq(pv_energy_profile), WhPerKWh)])]

(***************************************************************************)
(* Aggregation and serialisation (core/pv_simulation.py).                  *)
(***************************************************************************)

\* PhotovoltaicPlant.energyProfileArea: [] while a raw field is missing.
energyProfileArea(plant) ==
    IF plant.energyProfile = None \/ plant.surfaceArea = None THEN <<>>
    ELSE [h \in 1..Len(plant.energyProfile[1]) |->
             Ratio(plant.energyProfile[1][h], plant.surfaceArea[1])]

ProfileOf(plant) == IF plant.energyProfile = None THEN <<>> ELSE plant.energyProfile[1]
AreaOf(plant) == IF plant.surfaceArea = None THEN 0 ELSE plant.surfaceArea[1]
KwpOf(plant) == IF plant.systemKWP = None THEN Ratio(0, 1) ELSE plant.systemKWP[1]

RECURSIVE SumOver(_, _)
\* the sum of f[i] over i in 1..n
SumOver(f, n) == IF n = 0 THEN 0 ELSE f[n] + SumOver(f, n - 1)

\* x + y for two finite fractions
RatioAdd(x, y) ==
    LET g == Gcd(x.den, y.den)
        l == IF g = 0 THEN 0 ELSE (x.den \div g) * y.den
    IN  IF g = 0 THEN Ratio(x.num + y.num, 0)
        ELSE Ratio(x.num * (l \div x.den) + y.num * (l \div y.den), l)

\* only the first entry taken
SumRatio_first(f, n) == f[1]

RECURSIVE SumRatio(_, _)
\* np.sum of fractions f[1..n]
SumRatio(f, n) == IF n = 0 THEN Ratio(0, 1) ELSE RatioAdd(f[n], SumRatio(f, n - 1))

\* rows of the data frame: the length of its first column
Rows(ps) == IF Len(ps) = 0 THEN 0 ELSE Len(ProfileOf(ps[1]))

\* the row sum taken over the first column only
sum_axis1_first(columns, rows) == [h \in 1..rows |-> columns[1][h]]

\* df[columns].sum(axis=1): one sum per row of the frame
sum_axis1(columns, rows) ==
    [h \in 1..rows |-> SumOver([i \in 1..Len(columns) |-> columns[i][h]], Len(columns))]

\* generate_energy_profile_data_frame: [raised, value].
generate_energy_profile_data_frame(ps) ==
    LET surface_area_collector == [i \in 1..Len(ps) |-> AreaOf(ps[i])]
        row_sums == sum_axis1([i \in 1..Len(ps) |-> ProfileOf(ps[i])], Rows(ps))
        row_sum(h) == row_sums[h]
        zero_area == \E i \in 1..Len(ps) :
                        /\ ps[i].surfaceArea = Some(0)
                        /\ Len(ProfileOf(ps[i])) > 0
    IN  IF zero_area THEN [raised |-> Some("ZeroDivisionError"), value |-> None]
        ELSE [raised |-> None,
              value |-> Some(
                [energyProfile |-> [i \in 1..Len(ps) |-> ProfileOf(ps[i])],
                 energyAreaProfile |-> [i \in 1..Len(ps) |-> energyProfileArea(ps[i])],
                 all_column |-> [h \in 1..Rows(ps) |-> row_sum(h)],
                 all_area_column |->
                    [h \in 1..Rows(ps) |->
                        Ratio(row_sum(h), SumOver(surface_area_collector, Len(ps)))]])]

\* the two specific yields of the result column in each other's place
result_column_swapped(energy_over_all_systems, kwp_sum, area_sum) ==
    [sum_of_energy |-> energy_over_all_systems,
     spec_energy_per_kwp |-> Ratio(energy_over_all_systems, area_sum),
     spec_energy_per_area |-> RatioDiv(Ratio(energy_over_all_systems, 1), kwp_sum)]

\* lines 254-258 and 272-277: the column "Ergebnis aller PV-Anlagen"
result_column(energy_over_all_systems, kwp_sum, area_sum) ==
    [sum_of_energy |-> energy_over_all_systems,
     spec_energy_per_kwp |-> RatioDiv(Ratio(energy_over_all_systems, 1), kwp_sum),
     spec_energy_per_area |-> Ratio(energy_over_all_systems, area_sum)]

\* an empty collector summed without complaint
axis1_always_in_bounds(collector) == FALSE

\* line 254, np.sum(np.array(energy_profile_collector), axis=1): the array of an
\* empty collector has one dimension, and axis 1 is out of its bounds
axis1_out_of_bounds(collector) == Len(collector) = 0

\* generate_summary_data_frame: [raised, value].  np.sum(..., axis=1) of an empty
\* collector raises AxisError.
generate_summary_data_frame(ps) ==
    LET n == Len(ps)
        energy_per_system == [i \in 1..n |-> SumSeq(ProfileOf(ps[i]))]
        energy_over_all_systems == SumOver(energy_per_system, n)
        area_sum == SumOver([i \in 1..n |-> AreaOf(ps[i])], n)
        kwp_sum == SumRatio([i \in 1..n |-> KwpOf(ps[i])], n)
    IN  IF axis1_out_of_bounds(ps) THEN [raised |-> Some("AxisError"), value |-> None]
        ELSE [raised |-> None,
              value |-> Some(
                [plant |-> [i \in 1..n |->
                    [sum_of_energy |-> energy_per_system[i],
                     spec_energy_per_kwp |->
                        RatioDiv(Ratio(energy_per_system[i], 1), KwpOf(ps[i])),
                     spec_energy_per_area |-> Ratio(energy_per_system[i], AreaOf(ps[i]))]],
                 all |-> result_column(energy_over_all_systems, kwp_sum, area_sum)])]

\* One PvResult.
PvResult(profile, area_profile, summary) ==
    [EnergyProfile |-> profile,
     EnergyAreaProfile |-> area_profile,
     SumOfEnergyPerYear |-> summary.sum_of_energy,
     WorkSpecificEnergyPerYear |-> summary.spec_energy_per_kwp,
     AreaSpecificEnergyPerYear |-> summary.spec_energy_per_area]

\* the per-plant records built back to front
build_result_dict_reversed(ps, er, sr) ==
    [PhotovoltaicPlants |->
        [pvIndex \in 1..Len(ps) |->
            PvResult(er.energyProfile[Len(ps) + 1 - pvIndex],
                     er.energyAreaProfile[Len(ps) + 1 - pvIndex],
                     sr.plant[Len(ps) + 1 - pvIndex])],
     SummaryOfAllPlants |-> PvResult(er.all_column, er.all_area_column, sr.all)]

\* build_result_dict: the SodeleResults.
build_result_dict(ps, er, sr) ==
    [PhotovoltaicPlants |->
        [pvIndex \in 1..Len(ps) |->
            PvResult(er.energyProfile[pvIndex], er.energyAreaProfile[pvIndex],
                     sr.plant[pvIndex])],
     SummaryOfAllPlants |-> PvResult(er.all_column, er.all_area_column, sr.all)]

(***************************************************************************)
(* The requests simulate_pv_plants is run on.                              *)
(***************************************************************************)

\* A WeatherEntry of n hourly records.  Variant 1 is a bright series on the hour
\* grid; variant 2 is dark, with a missing dni, on a 90-minute grid from 00:30.
MkEntry(n, tz, variant) ==
    [timeStamps |-> [i \in 1..n |->
                        [t |-> IF variant = 1 THEN 60 * (i - 1) ELSE 30 + 90 * (i - 1),
                         off |-> tz]],
     temp_air |-> [i \in 1..n |-> 10 + i],
     atmospheric_pressure |-> [i \in 1..n |-> 101300],
     dni |-> [i \in 1..n |-> IF variant = 1 THEN Num(2 * i) ELSE NaN],
     ghi |-> [i \in 1..n |-> IF variant = 1 THEN 3 * i ELSE 0],
     dhi |-> [i \in 1..n |-> IF variant = 1 THEN i ELSE 0]]

WeatherEntries ==
    {MkEntry(n, tz, variant) : n \in 0..MaxLen, tz \in {None, Some(60)}, variant \in 1..2}

Timeshifts == {30, -75}

Site0 ==
    [altitude |-> 450, kind |-> "mittleres Jahr", years |-> 2015,
     latitude |-> <<"lat", 2449500, 3936500>>, longitude |-> <<"lon", 2449500, 3936500>>,
     tz |-> 1]

PlantA ==
    [moduleName |-> "SandiaA", inverterName |-> "InvA", modulesDatabaseType |-> 1,
     moduleInstallation |-> 1, lossesIrradiation |-> 10, albedo |-> 20,
     modulesPerString |-> 2, stringsPerInverter |-> 1, numberOfInverters |-> 1,
     useInverterDatabase |-> FALSE, useStandByPowerInverter |-> FALSE, inverterEta |-> 9]

PlantB ==
    [moduleName |-> "CecB", inverterName |-> "InvA", modulesDatabaseType |-> 2,
     moduleInstallation |-> 2, lossesIrradiation |-> 50, albedo |-> 20,
     modulesPerString |-> 1, stringsPerInverter |-> 2, numberOfInverters |-> 2,
     useInverterDatabase |-> TRUE, useStandByPowerInverter |-> TRUE, inverterEta |-> 9]

\* a module name the database does not hold
PlantC == [PlantA EXCEPT !.moduleName = "NoSuchModule"]

\* a database selector that is neither 1 nor 2
PlantD == [PlantB EXCEPT !.modulesDatabaseType = 3]

PlantConfigs == {PlantA, PlantB, PlantC, PlantD}

PlantLists == UNION {[1..n -> PlantConfigs] : n \in 0..MaxPlants}

IdleRead ==
    /\ datFile = None
    /\ rpc = "idle"
    /\ metadata = None
    /\ scan = None
    /\ readResult = None
    /\ readError = None

Init ==
    /\ pc = "start"
    /\ \E entry \in WeatherEntries, adjust \in BOOLEAN, recalc \in BOOLEAN,
          shift \in Timeshifts :
          weatherData = NewWeatherData(Site0, adjust, recalc, shift, entry)
    /\ \E cfgs \in PlantLists : plants = [i \in 1..Len(cfgs) |-> NewPlant(cfgs[i])]
    /\ keep_files \in BOOLEAN
    /\ idx = 1
    /\ log = <<>>
    /\ calls = <<>>
    /\ energy_results = None
    /\ summary_results = None
    /\ result = None
    /\ error = None
    /\ input0 = [weatherData |-> weatherData, plants |-> plants]
    /\ engine_calls = <<>>
    /\ metrics = None
    /\ IdleRead

(***************************************************************************)
(* simulate_pv_plants (core/pv_simulation.py), one action per stage.       *)
(***************************************************************************)

\* A logged call: the operation, the frame index it read, what pvlib handed back.
Call(op, wd, ret) == [op |-> op, index |-> wd.df[1].index, ret |-> ret]

\* the exception caught and recorded, the run going on
Raise_caught(stage, exc) ==
    /\ pc' = pc
    /\ error' = Some([stage |-> stage, exc |-> exc, plant_index |-> None])

\* the exception wrapped with the index of the plant the loop is at
Raise_indexed(stage, exc) ==
    /\ pc' = "raised"
    /\ error' = Some([stage |-> stage, exc |-> exc,
                      plant_index |-> IF stage = "plants" THEN Some(idx) ELSE None])

\* An exception leaves simulate_pv_plants as it was raised: nothing catches it,
\* nothing wraps it, nothing adds the plant the loop is at to it.
Raise(stage, exc) ==
    /\ pc' = "raised"
    /\ error' = Some([stage |-> stage, exc |-> exc, plant_index |-> None])

\* the shift applied only when the recalculation is requested as well
should_adjust_with_dni(wd) == wd.adjustTimestamp /\ wd.recalculateDNI

\* line 352: if sodele_input.weatherData.adjustTimestamp
should_adjust(wd) == wd.adjustTimestamp

\* lines 352-353
AdjustStep ==
    /\ pc = "start"
    /\ IF should_adjust(weatherData)
       THEN LET r == adjust_time_stamp(weatherData)
            IN  /\ calls' = Append(calls, Call("adjust_time_stamp", weatherData, None))
                /\ IF r.raised # None
                   THEN Raise("adjust", r.raised[1]) /\ UNCHANGED weatherData
                   ELSE /\ weatherData' = r.wd
                        /\ pc' = "dni"
                        /\ UNCHANGED error
       ELSE /\ pc' = "dni"
            /\ UNCHANGED <<weatherData, calls, error>>
    /\ UNCHANGED <<plants, keep_files, idx, log, energy_results, summary_results,
                   result, input0>>
    /\ UNCHANGED engine_calls
    /\ UNCHANGED metrics
    /\ UNCHANGED readVars

\* no warning at all
warn_never(wd, lg) == lg

\* line 357
warn_without_adjust(wd, lg) ==
    IF ~wd.adjustTimestamp THEN Append(lg, "warning: incorrect data record") ELSE lg

\* lines 355-358
DniStep ==
    /\ pc = "dni"
    /\ \/ /\ ~weatherData.recalculateDNI
          /\ pc' = "plants"
          /\ UNCHANGED <<weatherData, log, calls, error>>
       \/ /\ weatherData.recalculateDNI
          /\ log' = warn_without_adjust(weatherData, log)
          /\ \/ \E raw \in DniSeries(Len(weatherData.df[1].ghi)) :
                   /\ weatherData' = recalculate_dni(weatherData, raw)
                   /\ calls' = Append(calls, Call("recalculate_dni", weatherData, Some(raw)))
                   /\ pc' = "plants"
                   /\ UNCHANGED error
             \/ /\ Raise("dni", "pvlib: solar position or dni failed")
                /\ calls' = Append(calls, Call("recalculate_dni", weatherData, None))
                /\ UNCHANGED weatherData
    /\ UNCHANGED <<plants, keep_files, idx, energy_results, summary_results,
                   result, input0>>
    /\ UNCHANGED engine_calls
    /\ UNCHANGED metrics
    /\ UNCHANGED readVars

\* lines 365-367: the three assignments to the current plant
assign_results(plant, results) ==
    [plant EXCEPT !.energyProfile = Some(results.energyProfile),
                  !.surfaceArea = Some(results.surfaceArea),
                  !.systemKWP = Some(results.sumOfEnergyPerYear)]

\* the results written to the plant the loop is at and to the one after it
store_results_spill(ps, i, results) ==
    [j \in 1..Len(ps) |-> IF j = i \/ j = i + 1 THEN assign_results(ps[j], results) ELSE ps[j]]

\* lines 363-367: the results go to the plant the loop is at
store_results(ps, i, results) == [ps EXCEPT ![i] = assign_results(@, results)]

\* the loss scaling applied to the shared frame's ghi column in place
weather_after_calc_inplace(wd, cfg) ==
    [wd EXCEPT !.df = Some([wd.df[1] EXCEPT !.ghi =
        [h \in 1..Len(wd.df[1].ghi) |-> (10 - cfg.lossesIrradiation \div 10) * wd.df[1].ghi[h]]])]

\* df_weather after calc_pv_power_profile returned: the frame is only read.
weather_after_calc(wd, cfg) == wd

\* lines 363-367, one iteration
PlantStep ==
    /\ pc = "plants"
    /\ idx <= Len(plants)
    /\ LET r == calc_pv_power_profile(weatherData, plants[idx].cfg)
       IN  \/ /\ r.raised = None
              /\ engine_calls' = Append(engine_calls, idx)
              /\ plants' = store_results(plants, idx, r.results[1])
              /\ weatherData' = weather_after_calc(weatherData, plants[idx].cfg)
              /\ idx' = idx + 1
              /\ UNCHANGED <<pc, error>>
           \/ /\ r.raised = None
              /\ engine_calls' = Append(engine_calls, idx)
              /\ Raise("plants", "pvlib: run_model failed")
              /\ UNCHANGED <<plants, weatherData, idx>>
           \/ /\ r.raised # None
              /\ Raise("plants", r.raised[1])
              /\ UNCHANGED <<plants, weatherData, idx, engine_calls>>
    /\ UNCHANGED <<keep_files, log, calls, energy_results, summary_results,
                   result, input0>>
    /\ UNCHANGED metrics
    /\ UNCHANGED readVars

\* the loop left one plant early
loop_done_early(i, ps) == i >= Len(ps)

\* the loop of line 363 is exhausted
loop_done(i, ps) == i > Len(ps)

\* lines 369-372
GenerateEnergy ==
    /\ pc = "plants"
    /\ loop_done(idx, plants)
    /\ LET r == generate_energy_profile_data_frame(plants)
       IN  IF r.raised # None
           THEN Raise("energy", r.raised[1]) /\ UNCHANGED energy_results
           ELSE /\ energy_results' = r.value
                /\ pc' = "summary"
                /\ UNCHANGED error
    /\ UNCHANGED <<weatherData, plants, keep_files, idx, log, calls, summary_results,
                   result, input0>>
    /\ UNCHANGED engine_calls
    /\ UNCHANGED metrics
    /\ UNCHANGED readVars

\* line 373
GenerateSummary ==
    /\ pc = "summary"
    /\ LET r == generate_summary_data_frame(plants)
       IN  IF r.raised # None
           THEN Raise("summary", r.raised[1]) /\ UNCHANGED summary_results
           ELSE /\ summary_results' = r.value
                /\ pc' = "files"
                /\ UNCHANGED error
    /\ UNCHANGED <<weatherData, plants, keep_files, idx, log, calls, energy_results,
                   result, input0>>
    /\ UNCHANGED engine_calls
    /\ UNCHANGED metrics
    /\ UNCHANGED readVars

\* lines 376-382
WriteFiles ==
    /\ pc = "files"
    /\ \/ /\ ~keep_files
          /\ pc' = "build"
          /\ UNCHANGED error
       \/ /\ keep_files
          /\ pc' = "build"
          /\ UNCHANGED error
       \/ /\ keep_files
          /\ Raise("files", "OSError: ExcelWriter")
    /\ UNCHANGED <<weatherData, plants, keep_files, idx, log, calls, energy_results,
                   summary_results, result, input0>>
    /\ UNCHANGED engine_calls
    /\ UNCHANGED metrics
    /\ UNCHANGED readVars

\* lines 385-387
BuildResult ==
    /\ pc = "build"
    /\ result' = Some(build_result_dict(plants, energy_results[1], summary_results[1]))
    /\ pc' = "done"
    /\ UNCHANGED <<weatherData, plants, keep_files, idx, log, calls, energy_results,
                   summary_results, error, input0>>
    /\ UNCHANGED engine_calls
    /\ UNCHANGED metrics
    /\ UNCHANGED readVars

Next ==
    \/ AdjustStep
    \/ DniStep
    \/ PlantStep
    \/ GenerateEnergy
    \/ GenerateSummary
    \/ WriteFiles
    \/ BuildResult

Spec == Init /\ [][Next]_vars

(***************************************************************************)
(* Properties of simulate_pv_plants and of the dataset operations.         *)
(***************************************************************************)

BothRequested == input0.weatherData.adjustTimestamp /\ input0.weatherData.recalculateDNI
OnlyRecalcRequested == ~input0.weatherData.adjustTimestamp /\ input0.weatherData.recalculateDNI

Shift == input0.weatherData.timeshiftInMinutes
Index0 == input0.weatherData.df[1].index
TimeStamps0 == input0.weatherData.weatherData.timeStamps

OpsCalled == [i \in 1..Len(calls) |-> calls[i].op]

\* the per-plant phase has been entered
PastDataset == pc \notin {"start", "dni"} /\ (pc = "raised" => error[1].stage \notin {"adjust", "dni"})

\* C1: when both operations are requested, every run calls adjust_time_stamp first
\* and recalculate_dni second, and the index recalculate_dni works on (the one the
\* solar position is computed from) is the original index shifted by timeshiftInMinutes.
C1_AdjustBeforeRecalc ==
    BothRequested =>
        /\ OpsCalled \in {<<>>, <<"adjust_time_stamp">>,
                          <<"adjust_time_stamp", "recalculate_dni">>}
        /\ Len(calls) = 2 => calls[2].index = PlusTimedelta(Index0, Shift)
        /\ PastDataset => Len(calls) = 2

C1_Witness ==
    /\ BothRequested
    /\ pc = "plants"
    /\ Len(calls) = 2
    /\ calls[2].index # Index0

\* an aggregation step is about to read, or has read, the plants
AggregationReads ==
    \/ ENABLED GenerateEnergy
    \/ pc \in {"summary", "files", "build", "done"}
    \/ energy_results # None
    \/ summary_results # None

Assigned(plant) ==
    /\ plant.energyProfile # None
    /\ plant.surfaceArea # None
    /\ plant.systemKWP # None

\* C2: whenever aggregation reads the plants, the per-plant step has completed for
\* every plant: energyProfile, surfaceArea and systemKWP are assigned on each.
C2_JoinBeforeAggregation ==
    AggregationReads => \A i \in 1..Len(plants) : Assigned(plants[i])

C2_Witness ==
    /\ pc = "summary"
    /\ Len(plants) = 2
    /\ energy_results # None

\* C3: an error raised by any stage ends the run at once: the run is in its raised
\* state with no result, no stage runs after it, and a result exists only in a run
\* that raised nothing.
C3_FailFast ==
    /\ [](/\ error # None => (pc = "raised" /\ result = None)
          /\ pc = "raised" => error # None
          /\ result # None => (pc = "done" /\ error = None)
          /\ (error # None /\ error[1].stage \in {"adjust", "dni", "plants"})
                => (energy_results = None /\ summary_results = None)
          /\ (error # None /\ error[1].stage = "energy") => summary_results = None)
    /\ [][pc # "raised" /\ pc # "done"]_vars

C3_Witness ==
    /\ pc = "raised"
    /\ error # None
    /\ error[1].stage = "plants"
    /\ idx = 2
    /\ result = None

Unassigned(plant) ==
    /\ plant.energyProfile = None
    /\ plant.surfaceArea = None
    /\ plant.systemKWP = None

\* what the step of plant i assigns, computed from plant i's own configuration
OwnResults(i) == calc_pv_power_profile(weatherData, input0.plants[i].cfg).results[1]

HoldsOwnResults(i) ==
    /\ plants[i].cfg = input0.plants[i].cfg
    /\ plants[i].energyProfile = Some(OwnResults(i).energyProfile)
    /\ plants[i].surfaceArea = Some(OwnResults(i).surfaceArea)
    /\ plants[i].systemKWP = Some(OwnResults(i).sumOfEnergyPerYear)

\* C4: when the simulation of plant k (idx) fails, each plant before k holds exactly
\* the three result fields its own step assigned, and plant k and every later plant
\* are as they were handed in, with no result field assigned.
C4_FailureLocal ==
    (error # None /\ error[1].stage = "plants") =>
        /\ idx \in 1..Len(plants)
        /\ \A i \in 1..Len(plants) :
              IF i < idx THEN HoldsOwnResults(i)
              ELSE plants[i] = input0.plants[i] /\ Unassigned(plants[i])

C4_Witness ==
    /\ error # None
    /\ error[1].stage = "plants"
    /\ idx = 2
    /\ Len(plants) = 2
    /\ plants[1].cfg # plants[2].cfg
    /\ Assigned(plants[1])

\* C5: a plant step leaves the weather dataset and every other plant's record
\* unchanged, and each simulated plant holds the results computed from its own
\* configuration and the shared weather, whatever its position in the list.
C5_PlantStepFrame ==
    /\ [][pc = "plants" =>
            /\ weatherData' = weatherData
            /\ \A j \in 1..Len(plants) : j # idx => plants'[j] = plants[j]]_vars
    /\ [](pc = "plants" => \A i \in 1..Len(plants) : i < idx => HoldsOwnResults(i))

C5_Witness ==
    /\ pc = "plants"
    /\ idx = 3
    /\ plants[1].cfg = PlantB
    /\ plants[2].cfg = PlantA
    /\ Len(weatherData.df[1].ghi) = 2
    /\ weatherData.df[1].ghi[1] > 0

\* C6: with recalculateDNI set and adjustTimestamp not, the run does not fail on the
\* flags: one warning is logged, recalculate_dni is the only dataset operation and
\* runs once, the timestamps stay as handed in, and only a failing collaborator
\* keeps the run from the plant simulations.
C6_RecalcWithoutAdjust ==
    OnlyRecalcRequested =>
        /\ pc \notin {"start", "dni"} =>
              /\ Len(log) = 1
              /\ OpsCalled = <<"recalculate_dni">>
              /\ weatherData.weatherData.timeStamps = TimeStamps0
              /\ weatherData.df[1].index = Index0
        /\ (pc = "raised" /\ error[1].stage \in {"adjust", "dni"}) =>
              /\ error[1].stage = "dni"
              /\ error[1].exc = "pvlib: solar position or dni failed"

C6_Witness ==
    /\ OnlyRecalcRequested
    /\ pc = "plants"
    /\ idx = 2
    /\ Len(log) = 1
    /\ Len(TimeStamps0) > 0

\* adjust_time_stamp was called and returned
Adjusted ==
    /\ Len(calls) >= 1
    /\ calls[1].op = "adjust_time_stamp"
    /\ ~(pc = "raised" /\ error[1].stage = "adjust")

\* C9: after adjust_time_stamp the dataset has as many records as before, every
\* timestamp is the old one plus timeshiftInMinutes minutes at the same UTC offset
\* (so the first is the old first plus the shift), and consecutive timestamps are
\* as far apart as before; the frame's index is the same shifted series.
C9_AdjustShiftsAll ==
    Adjusted =>
        LET new == weatherData.weatherData.timeStamps
            old == TimeStamps0
        IN  /\ Len(new) = Len(old)
            /\ Len(new) > 0
            /\ new[1].t = old[1].t + Shift
            /\ \A i \in 1..Len(new) : new[i].t = old[i].t + Shift /\ new[i].off = old[i].off
            /\ \A i \in 1..(Len(new) - 1) : new[i + 1].t - new[i].t = old[i + 1].t - old[i].t
            /\ weatherData.df[1].index = to_datetime(new)
            /\ weatherData.df[1].index.tz = Index0.tz

C9_Witness ==
    /\ Adjusted
    /\ Len(TimeStamps0) = 2
    /\ TimeStamps0[1].off = Some(60)
    /\ TimeStamps0[2].t - TimeStamps0[1].t = 90
    /\ Shift = -75

\* recalculate_dni was called and returned
Recalculated == \E i \in 1..Len(calls) : calls[i].op = "recalculate_dni" /\ calls[i].ret # None

RawDni == (CHOOSE c \in Range(calls) : c.op = "recalculate_dni").ret[1]

\* C10: after recalculate_dni the dni series of the entry and of the frame has the
\* length it had, holds no NaN and no -0.0, and is 0.0 wherever the irradiance
\* collaborator returned NaN or -0.0.
C10_DniClean ==
    Recalculated =>
        LET dni == weatherData.weatherData.dni
        IN  /\ Len(dni) = Len(input0.weatherData.weatherData.dni)
            /\ weatherData.df[1].dni = dni
            /\ \A i \in 1..Len(dni) :
                  /\ dni[i].tag \notin {"nan", "negzero"}
                  /\ RawDni[i] \in {NaN, NegZero} => dni[i] = Num(0)

C10_Witness ==
    /\ Recalculated
    /\ Len(RawDni) = 2
    /\ RawDni[1] = NaN
    /\ RawDni[2] = NegZero
    /\ weatherData.weatherData.dni = <<Num(0), Num(0)>>

(***************************************************************************)
(* read_in_dat_file (core/weather_data_reader.py).                         *)
(*                                                                         *)
(* A line of the file is [start, colon, digits, text, names, tz]: the      *)
(* label it starts with, whether it holds a ':', the first run of digits   *)
(* after the ':' (None if there is none), the text after the ':', the      *)
(* letter words [a-zA-Z]+ of the line, and the UTC offset the line states  *)
(* in words (None if it states none).  The data block is [rows, variant]:  *)
(* rows lines of one field per column name, with the values Col gives.     *)
(***************************************************************************)

Line(start, colon, digits, text, names, tz) ==
    [start |-> start, colon |-> colon, digits |-> digits, text |-> text,
     names |-> names, tz |-> tz]

L_RW == Line("Rechtswert", TRUE, Some(3936500), "3936500 Meter", <<"Rechtswert", "Meter">>, None)
L_HW == Line("Hochwert", TRUE, Some(2449500), "2449500 Meter", <<"Hochwert", "Meter">>, None)
L_ALT == Line("Hoehenlage", TRUE, Some(450), "450 Meter ueber NN",
              <<"Hoehenlage", "Meter", "ueber", "NN">>, None)
L_KIND == Line("Art des TRY", TRUE, None, "mittleres Jahr",
               <<"Art", "des", "TRY", "mittleres", "Jahr">>, None)
\* "HH Stunde (MEZ!)" and the like: the header's statement of the clock of the hours
L_HH(tz) == Line("HH", FALSE, None, "", <<"HH", "Stunde">>, Some(tz))
L_BLANK == Line("", FALSE, None, "", <<>>, None)
L_RW_NOCOLON == Line("Rechtswert", FALSE, None, "", <<"Rechtswert">>, None)
L_HW_NODIGITS == Line("Hochwert", TRUE, None, "unbekannt", <<"Hochwert", "unbekannt">>, None)
L_COLS == Line("RW", FALSE, None, "",
               <<"RW", "HW", "MM", "DD", "HH", "t", "p", "WR", "WG", "N", "x", "RF",
                 "B", "D", "A", "E", "IL">>, None)
L_COLS_NOP == Line("RW", FALSE, None, "",
               <<"RW", "HW", "MM", "DD", "HH", "t", "WR", "WG", "N", "x", "RF",
                 "B", "D", "A", "E", "IL">>, None)
L_SENTINEL == Line("***", FALSE, None, "", <<>>, None)

GoodHeader == <<L_RW, L_HW, L_ALT, L_KIND, L_HH(60), L_COLS, L_SENTINEL>>

Headers ==
    {GoodHeader,
     <<L_KIND, L_BLANK, L_ALT, L_HW, L_HH(0), L_RW, L_COLS, L_SENTINEL>>,
     <<L_HW, L_RW, L_COLS, L_SENTINEL>>,
     <<L_RW, L_ALT, L_KIND, L_HH(60), L_COLS, L_SENTINEL>>,
     <<L_RW_NOCOLON, L_HW, L_ALT, L_COLS, L_SENTINEL>>,
     <<L_RW, L_HW_NODIGITS, L_ALT, L_COLS, L_SENTINEL>>,
     <<L_RW, L_HW, L_ALT, L_KIND, L_COLS_NOP, L_SENTINEL>>,
     <<L_RW, L_HW, L_COLS>>}

ExpectedRows == 8760

\* the row counts of the files read: the expected one, one less, one more, a short one
RowCounts == {ExpectedRows - 1, ExpectedRows, ExpectedRows + 1, 1}

\* the value of column name in data row i
Col(name, i, variant) ==
    IF name = "p" THEN 950 + (i % 7) * variant
    ELSE IF name = "D" THEN (i % 5) * variant
    ELSE IF name = "B" THEN (i % 3) * 2 * variant
    ELSE IF name = "t" THEN (i % 11) - 3
    ELSE i % 4

\* path is the name of the temporary file the with_tempfile wrapper wrote the
\* content to: the only path read_in_dat_file ever sees
DatFile(readable, header, ragged, rows, variant) ==
    [path |-> "/tmp/tmpfile", readable |-> readable, header |-> header,
     ragged |-> ragged, rows |-> rows, variant |-> variant]

\* one file that cannot be opened, one whose data block pandas cannot tokenize,
\* and every header with every row count
DatFiles ==
    {DatFile(TRUE, h, FALSE, n, v) : h \in Headers, n \in RowCounts, v \in 1..2}
    \cup {DatFile(FALSE, GoodHeader, FALSE, ExpectedRows, 1),
          DatFile(TRUE, GoodHeader, TRUE, ExpectedRows, 1)}

\* the declared clock of the header, if a line states one
DeclaredTz(file) ==
    IF \E i \in 1..Len(file.header) : file.header[i].tz # None
    THEN (CHOOSE l \in Range(file.header) : l.tz # None).tz
    ELSE None

\* meta_keys: label -> target; the integer converter for all but "Art des TRY"
meta_keys ==
    [k \in {"Rechtswert", "Hochwert", "Hoehenlage", "Art des TRY"} |->
        IF k = "Hoehenlage" THEN "altitude" ELSE IF k = "Art des TRY" THEN "kind" ELSE k]

\* meta_key_info["converter"](data): [raised, value]
converter(key, line) ==
    IF key = "Art des TRY" THEN [raised |-> None, value |-> Some(line.text)]
    ELSE IF line.digits = None
    THEN [raised |-> Some("IndexError"), value |-> None]
    ELSE [raised |-> None, value |-> line.digits]

\* metadata, a dict: the value stored under key, or None
Get(md, key) == IF key \in DOMAIN md THEN Some(md[key]) ELSE None
\* metadata[key] = value
Put(md, key, value) == [k \in DOMAIN md \cup {key} |-> IF k = key THEN value ELSE md[k]]
\* metadata.get(key, default)
GetOr(md, key, default) == IF key \in DOMAIN md THEN md[key] ELSE default

EmptyDict == [k \in {} |-> 0]

\* a ValueError raised by read_in_dat_file: the message names the path, and the
\* row count where the code puts it in
ValueError(what, path, count) ==
    Some([type |-> "ValueError", what |-> what, path |-> Some(path), count |-> count])

\* an exception of another type, passing through as raised
OtherError(type, what) ==
    Some([type |-> type, what |-> what, path |-> None, count |-> None])

\* pyproj Transformer EPSG:3034 -> EPSG:4326, one value per coordinate pair
transform(hochwert, rechtswert) ==
    [lat |-> <<"lat", hochwert, rechtswert>>, lon |-> <<"lon", hochwert, rechtswert>>]

StartOf2015 == 0
\* 2015-12-31 23:00:00, in minutes after 2015-01-01 00:00:00
Dec31_23h == 525540
MinutesPerHour == 60

\* the range without its end point
date_range_open(start, end, tz_seconds) ==
    [i \in 1..((end - start) \div MinutesPerHour) |->
        [t |-> start + MinutesPerHour * (i - 1), off |-> Some(tz_seconds \div 60)]]

\* pd.date_range(start, end, freq='h', tz=seconds east of UTC)
date_range(start, end, tz_seconds) ==
    [i \in 1..((end - start) \div MinutesPerHour + 1) |->
        [t |-> start + MinutesPerHour * (i - 1), off |-> Some(tz_seconds \div 60)]]

\* the columns lines 172-212 take from the table
RequiredColumns == {"p", "t", "RF", "WG", "D", "B", "WR", "N", "x"}

InitReader ==
    /\ datFile \in {Some(f) : f \in DatFiles}
    /\ rpc = "open"
    /\ metadata = EmptyDict
    /\ scan = [line |-> 1, last_line |-> L_BLANK, column_names |-> <<>>]
    /\ readResult = None
    /\ readError = None
    /\ pc = "idle"
    /\ weatherData = None
    /\ plants = <<>>
    /\ keep_files = FALSE
    /\ idx = 1
    /\ log = <<>>
    /\ calls = <<>>
    /\ energy_results = None
    /\ summary_results = None
    /\ result = None
    /\ error = None
    /\ input0 = None
    /\ engine_calls = <<>>
    /\ metrics = None

\* an exception leaves read_in_dat_file
ReadRaise(e) ==
    /\ rpc' = "raised"
    /\ readError' = e

\* lines 78-81
OpenFile ==
    /\ rpc = "open"
    /\ IF datFile[1].readable
       THEN rpc' = "scan" /\ UNCHANGED readError
       ELSE ReadRaise(ValueError("Could not read in the .dat weather data file",
                                 datFile[1].path, None))
    /\ UNCHANGED <<datFile, metadata, scan, readResult>>
    /\ UNCHANGED simVars

\* the key is taken from the number of the line, whatever the line starts with
matched_key_by_position(line, current_line) ==
    IF current_line = 1 THEN Some("Rechtswert")
    ELSE IF current_line = 2 THEN Some("Hochwert")
    ELSE IF current_line = 3 THEN Some("Hoehenlage")
    ELSE IF current_line = 4 THEN Some("Art des TRY")
    ELSE None

\* lines 130-132: the meta key the line starts with, None if it starts with none
matched_key(line, current_line) ==
    IF line.start \in DOMAIN meta_keys THEN Some(line.start) ELSE None

\* lines 115-141, one line of the header
ScanLine ==
    /\ rpc = "scan"
    /\ LET header == datFile[1].header
           line == header[scan.line]
       IN  IF scan.line > Len(header)
           THEN \* the file is exhausted without a sentinel
                /\ rpc' = "project"
                /\ UNCHANGED <<metadata, scan, readError>>
           ELSE IF line.start = "***"
           THEN /\ scan' = [scan EXCEPT !.column_names = scan.last_line.names]
                /\ rpc' = "project"
                /\ UNCHANGED <<metadata, readError>>
           ELSE IF matched_key(line, scan.line) # None
           THEN IF ~line.colon
                THEN \* row[1] of a line without ':'
                     /\ ReadRaise(OtherError("IndexError", "list index out of range"))
                     /\ UNCHANGED <<metadata, scan>>
                ELSE LET meta_key == matched_key(line, scan.line)[1]
                         c == converter(meta_key, line)
                     IN  IF c.raised # None
                         THEN /\ ReadRaise(ValueError("Could not read in the metadata",
                                                      datFile[1].path, None))
                              /\ UNCHANGED <<metadata, scan>>
                         ELSE /\ metadata' = Put(metadata, meta_keys[meta_key], c.value[1])
                              /\ scan' = [scan EXCEPT !.line = @ + 1, !.last_line = line]
                              /\ UNCHANGED <<rpc, readError>>
           ELSE /\ scan' = [scan EXCEPT !.line = @ + 1, !.last_line = line]
                /\ UNCHANGED <<metadata, rpc, readError>>
    /\ UNCHANGED <<datFile, readResult>>
    /\ UNCHANGED simVars

\* line 153
TZ == 1

\* lines 143-153
Project ==
    /\ rpc = "project"
    /\ IF "Hochwert" \notin DOMAIN metadata
       THEN ReadRaise(OtherError("KeyError", "Hochwert")) /\ UNCHANGED metadata
       ELSE IF "Rechtswert" \notin DOMAIN metadata
       THEN ReadRaise(OtherError("KeyError", "Rechtswert")) /\ UNCHANGED metadata
       ELSE LET ll == transform(metadata["Hochwert"], metadata["Rechtswert"])
            IN  /\ metadata' = Put(Put(Put(metadata, "latitude", ll.lat),
                                       "longitude", ll.lon), "TZ", TZ)
                /\ rpc' = "read"
                /\ UNCHANGED readError
    /\ UNCHANGED <<datFile, scan, readResult>>
    /\ UNCHANGED simVars

\* the rows pd.read_table finds after the sentinel (none if there was no sentinel)
TableRows(file, sc) == IF sc.line > Len(file.header) THEN 0 ELSE file.rows

\* pd.read_table returns a table: every line has as many fields as there are names,
\* and it is not the case that there are neither names nor data (EmptyDataError)
tokenized(file, sc) ==
    /\ ~file.ragged
    /\ ~(sc.column_names = <<>> /\ TableRows(file, sc) = 0)

\* the check turned into "too few rows"
check_row_count_min(n, path) ==
    IF n < ExpectedRows
    THEN ValueError("datapoints has been read in instead of 8760", path, Some(n))
    ELSE None

\* lines 162-164: the row-count check, [raised]
check_row_count(n, path) ==
    IF n # ExpectedRows
    THEN ValueError("datapoints has been read in instead of 8760", path, Some(n))
    ELSE None

\* the first column lines 172-211 ask for and the table does not have
missing_column(column_names) ==
    LET order == <<"p", "t", "RF", "WG", "D", "B", "WR", "N", "x">>
        missing == {i \in 1..Len(order) : order[i] \notin Range(column_names)}
    IN  IF missing = {} THEN None
        ELSE Some(order[CHOOSE i \in missing : \A j \in missing : i <= j])

PaPerHPa == 100

\* the pressure column taken over as it is
hPa_to_Pa_unconverted(p) == p

\* line 172: dat_data["p"] * 100
hPa_to_Pa(p) == p * PaPerHPa

\* lines 166-213: the WeatherData built from a table of n rows
build_weather_data(file, md, n) ==
    LET dat_range == date_range(StartOf2015, Dec31_23h, md["TZ"] * 60 * 60)
        v == file.variant
        entry ==
            [timeStamps |-> dat_range,
             temp_air |-> [i \in 1..n |-> Col("t", i, v)],
             atmospheric_pressure |-> [i \in 1..n |-> hPa_to_Pa(Col("p", i, v))],
             dni |-> [i \in 1..n |-> Num(Col("B", i, v))],
             ghi |-> [i \in 1..n |-> Col("D", i, v) + Col("B", i, v)],
             dhi |-> [i \in 1..n |-> Col("D", i, v)]]
        site ==
            [altitude |-> GetOr(md, "altitude", 0),
             kind |-> GetOr(md, "kind", "unknown"),
             years |-> GetOr(md, "years", 2015),
             latitude |-> md["latitude"],
             longitude |-> md["longitude"],
             tz |-> GetOr(md, "TZ", 1)]
    IN  NewWeatherData(site,
                       GetOr(md, "adjustTimestamp", TRUE),
                       GetOr(md, "recalculateDNI", TRUE),
                       GetOr(md, "timeshiftInMinutes", 30),
                       entry)

\* lines 155-164
ReadTable ==
    /\ rpc = "read"
    /\ LET file == datFile[1]
           n == TableRows(file, scan)
           bad == check_row_count(n, file.path)
       IN  IF ~tokenized(file, scan)
           THEN ReadRaise(ValueError("Could not read the datapoints", file.path, None))
           ELSE IF bad # None
           THEN ReadRaise(bad)
           ELSE rpc' = "build" /\ UNCHANGED readError
    /\ UNCHANGED <<datFile, metadata, scan, readResult>>
    /\ UNCHANGED simVars

\* lines 166-213
BuildWeatherData ==
    /\ rpc = "build"
    /\ LET miss == missing_column(scan.column_names)
       IN  IF miss # None
           THEN ReadRaise(OtherError("KeyError", miss[1])) /\ UNCHANGED readResult
           ELSE /\ readResult' =
                      Some(build_weather_data(datFile[1], metadata, TableRows(datFile[1], scan)))
                /\ rpc' = "done"
                /\ UNCHANGED readError
    /\ UNCHANGED <<datFile, metadata, scan>>
    /\ UNCHANGED simVars

NextReader ==
    \/ OpenFile
    \/ ScanLine
    \/ Project
    \/ ReadTable
    \/ BuildWeatherData

SpecReader == InitReader /\ [][NextReader]_vars

(***************************************************************************)
(* Properties of read_in_dat_file.                                         *)
(***************************************************************************)

TheFile == datFile[1]

\* the header was read through and the table was tokenized: line 162 is reached
RowCheckReached ==
    /\ "TZ" \in DOMAIN metadata
    /\ tokenized(TheFile, scan)
    /\ rpc \in {"raised", "build", "done"}

WellFormed(file) ==
    /\ file.readable
    /\ ~file.ragged
    /\ file.rows = ExpectedRows
    /\ \A i \in 1..Len(file.header) :
          file.header[i].start \in DOMAIN meta_keys =>
              /\ file.header[i].colon
              /\ file.header[i].start # "Art des TRY" => file.header[i].digits # None
    /\ \E i \in 1..Len(file.header) : file.header[i].start = "Rechtswert"
    /\ \E i \in 1..Len(file.header) : file.header[i].start = "Hochwert"
    /\ \E i \in 2..Len(file.header) :
          /\ file.header[i].start = "***"
          /\ RequiredColumns \subseteq Range(file.header[i - 1].names)
          /\ \A j \in 1..(i - 1) : file.header[j].start # "***"

ReadStamps == readResult[1].weatherData.timeStamps

\* C8 (as amended): a well-formed file is read without an error, and the WeatherData
\* returned has exactly 8760 timestamps, the first at 2015-01-01 00:00, each one hour
\* after the one before (so strictly increasing), all at the UTC offset of one hour
\* that the reader fixes itself, whatever the header says.
C8_HourlyYear ==
    /\ WellFormed(TheFile) => rpc # "raised"
    /\ readResult # None =>
          /\ WellFormed(TheFile)
          /\ Len(ReadStamps) = 8760
          /\ ReadStamps[1].t = 0
          /\ \A i \in 1..(Len(ReadStamps) - 1) : ReadStamps[i + 1].t = ReadStamps[i].t + 60
          /\ \A i \in 1..Len(ReadStamps) : ReadStamps[i].off = Some(60)
          /\ readResult[1].df[1].index = to_datetime(ReadStamps)
          /\ Len(readResult[1].weatherData.ghi) = 8760

C8_Witness ==
    /\ readResult # None
    /\ rpc = "done"
    /\ DeclaredTz(TheFile) = Some(0)
    /\ ReadStamps[8760].t = 525540

\* C8 (as stated): the UTC offset of the timestamps is the one the header declares.
C8_Original ==
    (readResult # None /\ DeclaredTz(TheFile) # None) =>
        \A i \in 1..Len(ReadStamps) : ReadStamps[i].off = DeclaredTz(TheFile)

(***************************************************************************)
(* Properties of the aggregation and of the result.                        *)
(***************************************************************************)

TheResult == result[1]
N == Len(plants)

PvResultFields ==
    {"EnergyProfile", "EnergyAreaProfile", "SumOfEnergyPerYear",
     "WorkSpecificEnergyPerYear", "AreaSpecificEnergyPerYear"}

\* C11: a result exists only for N >= 1 plants and then holds exactly N per-plant
\* records in the order of the plant list, record i carrying plant i's own energy
\* profile, area profile and summary column, plus one summary-of-all-plants record;
\* every record has the five PvResult fields.
C11_ResultShape ==
    result # None =>
        /\ N >= 1
        /\ DOMAIN TheResult = {"PhotovoltaicPlants", "SummaryOfAllPlants"}
        /\ Len(TheResult.PhotovoltaicPlants) = N
        /\ DOMAIN TheResult.SummaryOfAllPlants = PvResultFields
        /\ \A i \in 1..N :
              LET rec == TheResult.PhotovoltaicPlants[i]
              IN  /\ DOMAIN rec = PvResultFields
                  /\ plants[i].cfg = input0.plants[i].cfg
                  /\ rec.EnergyProfile = plants[i].energyProfile[1]
                  /\ rec.EnergyAreaProfile = energyProfileArea(plants[i])
                  /\ rec.SumOfEnergyPerYear = summary_results[1].plant[i].sum_of_energy
                  /\ rec.WorkSpecificEnergyPerYear = summary_results[1].plant[i].spec_energy_per_kwp
                  /\ rec.AreaSpecificEnergyPerYear = summary_results[1].plant[i].spec_energy_per_area
                  /\ rec.SumOfEnergyPerYear = SumSeq(plants[i].energyProfile[1])

C11_Witness ==
    /\ result # None
    /\ N = 2
    /\ plants[1].cfg = PlantA
    /\ plants[2].cfg = PlantB
    /\ TheResult.PhotovoltaicPlants[1].SumOfEnergyPerYear
          # TheResult.PhotovoltaicPlants[2].SumOfEnergyPerYear

\* the arithmetic mean of the fractions f[1..n]
MeanRatio(f, n) == RatioDiv(SumRatio(f, n), Ratio(n, 1))

Hours == 1..Len(TheResult.SummaryOfAllPlants.EnergyProfile)

\* C12: in every result the fleet area-normalized profile is, hour by hour, the
\* arithmetic mean over the plants of energyProfile[h] / surfaceArea.
C12_FleetAreaProfileIsMean ==
    result # None =>
        /\ DOMAIN TheResult.SummaryOfAllPlants.EnergyAreaProfile = Hours
        /\ \A h \in Hours :
              TheResult.SummaryOfAllPlants.EnergyAreaProfile[h] =
                  MeanRatio([i \in 1..N |-> Ratio(plants[i].energyProfile[1][h],
                                                  plants[i].surfaceArea[1])], N)

\* C13: in every result the fleet energy profile is as long as each plant's profile
\* and holds, for every hour, the sum of the plants' energies of that hour.
C13_FleetProfileIsSum ==
    result # None =>
        LET fleet == TheResult.SummaryOfAllPlants.EnergyProfile
        IN  /\ \A i \in 1..N : Len(TheResult.PhotovoltaicPlants[i].EnergyProfile) = Len(fleet)
            /\ Len(fleet) = Len(weatherData.df[1].ghi)
            /\ \A h \in 1..Len(fleet) :
                  fleet[h] = SumOver([i \in 1..N |-> plants[i].energyProfile[1][h]], N)

C13_Witness ==
    /\ result # None
    /\ N = 2
    /\ Len(TheResult.SummaryOfAllPlants.EnergyProfile) = 2
    /\ plants[1].energyProfile[1][2] > 0
    /\ plants[2].energyProfile[1][2] > 0
    /\ TheResult.SummaryOfAllPlants.EnergyProfile[2]
          = plants[1].energyProfile[1][2] + plants[2].energyProfile[1][2]

FleetRecord == TheResult.SummaryOfAllPlants

Identical == N >= 1 /\ \A i \in 1..N : input0.plants[i].cfg = input0.plants[1].cfg

ModuleOf(i) == get_modules_and_inverters(plants[i].cfg).module[1]

\* C16: every plant that has been simulated holds surfaceArea = module area times the
\* module count and systemKWP = rated current times rated voltage times the module
\* count / 1000, from the Sandia fields for database type 1 and the CEC fields for
\* database type 2.
C16_AreaAndInstalledKwp ==
    \A i \in 1..N :
        Assigned(plants[i]) =>
            /\ plants[i].surfaceArea = Some(module_surface_area(plants[i].cfg, ModuleOf(i)))
            /\ plants[i].systemKWP =
                  Some(Ratio(UnitsPerWh * modules_power_rated(plants[i].cfg, ModuleOf(i)),
                             WhPerKWh))

\* the cleaned AC power of plant i over the shared weather, in units of the model
PowerOf(i) ==
    LET cfg == plants[i].cfg
        lookup == get_modules_and_inverters(cfg)
    IN  ac_power_profile(cfg, run_model(cfg, engine_weather(weatherData.df[1], cfg)),
                         lookup.inverter[1])

\* C17: the energy profile stored on a simulated plant is in kWh: entry h is the
\* cleaned AC power in W of hour h, times the hours one record stands for (8760 /
\* number of records, one hour for a full year), divided by 1000; the annual sum in
\* the result is the sum of these entries.
C17_EnergyProfileInKWh ==
    \A i \in 1..N :
        Assigned(plants[i]) =>
            LET E == plants[i].energyProfile[1]
            IN  /\ Len(E) = Len(PowerOf(i))
                /\ \A h \in 1..Len(E) :
                      Ratio(E[h], 1) = Ratio(PowerOf(i)[h] * HoursPerYear, Len(E) * WhPerKWh)
                /\ result # None =>
                      TheResult.PhotovoltaicPlants[i].SumOfEnergyPerYear = SumSeq(E)

PlantFailed == error # None /\ error[1].stage = "plants"

\* what the lookup and the checks of calc_pv_power_profile raise for the plant at idx
OwnFailure == calc_pv_power_profile(weatherData, plants[idx].cfg).raised

HeaderFailed == rpc = "raised" /\ "TZ" \notin DOMAIN metadata

\* C19: when the file cannot be opened, or a recognised header field is missing or
\* cannot be parsed, read_in_dat_file returns no WeatherData and raises its own
\* data-format error (the ValueError it wraps failures in), which names the file
\* and, for a header field, the field; no exception of another kind escapes.
C19_HeaderFailuresWrapped ==
    HeaderFailed =>
        /\ readResult = None
        /\ readError[1].type = "ValueError"
        /\ readError[1].path = Some(TheFile.path)
        /\ TheFile.readable => readError[1].what \in DOMAIN meta_keys

BadSelector(i) == input0.plants[i].cfg.modulesDatabaseType \notin {1, 2}

\* C20: a plant whose modulesDatabaseType is neither 1 nor 2 is never simulated: the
\* loop does not get past it, the physics engine is never invoked for it, none of its
\* result fields is assigned, and when the loop reaches it the run fails with the
\* ValueError of the parameter lookup, whose message holds the bad selector value.
C20_BadSelectorRejected ==
    \A i \in 1..N :
        BadSelector(i) =>
            /\ idx <= i
            /\ \A c \in 1..Len(engine_calls) : engine_calls[c] # i
            /\ Unassigned(plants[i])
            /\ result = None
            /\ (PlantFailed /\ idx = i) =>
                  error[1].exc = "ValueError: Unknown modules database type: "
                                    \o ToString(plants[i].cfg.modulesDatabaseType)

C20_Witness ==
    /\ PlantFailed
    /\ idx = 2
    /\ BadSelector(2)
    /\ engine_calls = <<1>>
    /\ error[1].exc = "ValueError: Unknown modules database type: 3"

\* ------------------------------------------------------------------------
\* PhotovoltaicPlant as an object: its raw fields are assigned, its derived
\* metrics are read (interfaces/pv_specifics.py, lines 32-64).

\* the number of assignments one plant object receives
MaxAssignments == 3

\* what an accessor hands back, or the exception it raises
Returned(v) == [raised |-> None, value |-> Some(v)]
Raises(exc) == [raised |-> Some(exc), value |-> None]

\* the value handed back by the first read is kept and handed back ever after
energyProfileSum_cached(plant) ==
    IF metrics # None THEN metrics[1].energyProfileSum.value[1]
    ELSE IF plant.energyProfile = None THEN 0 ELSE SumSeq(plant.energyProfile[1])

\* lines 36-40
energyProfileSum(plant) ==
    IF plant.energyProfile = None THEN 0 ELSE SumSeq(plant.energyProfile[1])

\* lines 50-56: a float division, ZeroDivisionError on a surfaceArea of 0
energyProfileAreaSum(plant) ==
    IF plant.surfaceArea = None THEN Returned(Ratio(0, 1))
    ELSE IF plant.energyProfile = None THEN Returned(Ratio(0, 1))
    ELSE IF plant.surfaceArea[1] = 0 THEN Raises("ZeroDivisionError")
    ELSE Returned(Ratio(energyProfileSum(plant), plant.surfaceArea[1]))

\* lines 58-64: a float division, ZeroDivisionError on a systemKWP of 0
energyKWPSum(plant) ==
    IF plant.systemKWP = None THEN Returned(Ratio(0, 1))
    ELSE IF plant.energyProfile = None THEN Returned(Ratio(0, 1))
    ELSE IF plant.systemKWP[1].num = 0 THEN Raises("ZeroDivisionError")
    ELSE Returned(RatioDiv(Ratio(energyProfileSum(plant), 1), plant.systemKWP[1]))

\* the four accessors read one after the other; energyProfileArea (lines 42-48)
\* divides entry by entry and raises on the first entry when surfaceArea is 0
derived_metrics(plant) ==
    [energyProfileSum |-> Returned(energyProfileSum(plant)),
     energyProfileArea |->
         IF /\ plant.energyProfile # None
            /\ plant.surfaceArea = Some(0)
            /\ Len(plant.energyProfile[1]) > 0
         THEN Raises("ZeroDivisionError")
         ELSE Returned(energyProfileArea(plant)),
     energyProfileAreaSum |-> energyProfileAreaSum(plant),
     energyKWPSum |-> energyKWPSum(plant)]

\* values a caller assigns to the raw fields
ProfileValues == {None, Some(<<>>), Some(<<0, 0>>), Some(<<250>>), Some(<<100, 300>>)}
AreaValues == {None, Some(0), Some(2), Some(5)}
KwpValues == {None, Some(Ratio(0, 1)), Some(Ratio(1, 2)), Some(Ratio(4, 1))}

IdleSim ==
    /\ weatherData = None
    /\ keep_files = FALSE
    /\ log = <<>>
    /\ calls = <<>>
    /\ energy_results = None
    /\ summary_results = None
    /\ result = None
    /\ error = None
    /\ engine_calls = <<>>

\* a freshly constructed plant: no profile, no area, no installed power
InitPlant ==
    /\ pc = "constructed"
    /\ plants = <<NewPlant(PlantA)>>
    /\ idx = 0
    /\ metrics = None
    /\ input0 = None
    /\ IdleSim
    /\ IdleRead

PlantUnchanged ==
    UNCHANGED <<weatherData, keep_files, log, calls, energy_results, summary_results,
                result, error, input0, engine_calls, readVars>>

Assign(field, v) ==
    /\ idx < MaxAssignments
    /\ idx' = idx + 1
    /\ pc' = "assigned"
    /\ plants' = [plants EXCEPT ![1] = [@ EXCEPT ![field] = v]]
    /\ UNCHANGED metrics
    /\ PlantUnchanged

\* plant.energyProfile = v
SetEnergyProfile == \E v \in ProfileValues : Assign("energyProfile", v)

\* plant.surfaceArea = v
SetSurfaceArea == \E v \in AreaValues : Assign("surfaceArea", v)

\* plant.systemKWP = v
SetSystemKWP == \E v \in KwpValues : Assign("systemKWP", v)

\* the accessors are read
ReadMetrics ==
    /\ pc' = "read"
    /\ metrics' = Some(derived_metrics(plants[1]))
    /\ UNCHANGED <<plants, idx>>
    /\ PlantUnchanged

NextPlant == SetEnergyProfile \/ SetSurfaceArea \/ SetSystemKWP \/ ReadMetrics

SpecPlant == InitPlant /\ [][NextPlant]_vars

ThePlant == plants[1]

\* the quotient the accessors compute, with Python's None and zero-divisor cases
Quotient(profile, by, zero) ==
    IF by = None \/ profile = None THEN Returned(Ratio(0, 1))
    ELSE IF zero THEN Raises("ZeroDivisionError")
    ELSE Returned(by[1])

\* C21: once the accessors of a plant have been read, whatever was assigned to
\* energyProfile, surfaceArea and systemKWP before, each value handed back is
\* computed from the fields as they are now: the sum of energyProfile, each
\* entry over surfaceArea, the sum over surfaceArea and the sum over systemKWP
\* (0 or the empty list while a field is None, ZeroDivisionError on a divisor
\* of 0), never a value kept from an earlier read.
C21_MetricsFromCurrentFields ==
    pc = "read" =>
        LET profile == ThePlant.energyProfile
            area == ThePlant.surfaceArea
            kwp == ThePlant.systemKWP
            total == IF profile = None THEN 0 ELSE SumSeq(profile[1])
            m == metrics[1]
        IN  /\ m.energyProfileSum = Returned(total)
            /\ m.energyProfileArea =
                  IF profile = None \/ area = None THEN Returned(<<>>)
                  ELSE IF area[1] = 0 /\ profile[1] # <<>> THEN Raises("ZeroDivisionError")
                  ELSE Returned([h \in 1..Len(profile[1]) |-> Ratio(profile[1][h], area[1])])
            /\ m.energyProfileAreaSum =
                  Quotient(profile, IF area \in {None, Some(0)} THEN area
                                    ELSE Some(Ratio(total, area[1])),
                           area = Some(0))
            /\ m.energyKWPSum =
                  Quotient(profile, IF kwp \in {None, Some(Ratio(0, 1))} THEN kwp
                                    ELSE Some(RatioDiv(Ratio(total, 1), kwp[1])),
                           kwp = Some(Ratio(0, 1)))

\* a plant whose three fields were assigned, read after the last assignment
C21_Witness ==
    /\ pc = "read"
    /\ idx = MaxAssignments
    /\ ThePlant.energyProfile = Some(<<100, 300>>)
    /\ ThePlant.surfaceArea = Some(5)
    /\ ThePlant.systemKWP = Some(Ratio(1, 2))
    /\ metrics[1].energyProfileSum = Returned(400)
    /\ metrics[1].energyProfileArea = Returned(<<Ratio(20, 1), Ratio(60, 1)>>)
    /\ metrics[1].energyProfileAreaSum = Returned(Ratio(80, 1))
    /\ metrics[1].energyKWPSum = Returned(Ratio(800, 1))

\* ------------------------------------------------------------------------
\* simulate_pv_plants on plant configurations beyond the ones above: an
\* inverter from the database with the standby power ignored, and a plant
\* constructed with the default module, string and inverter counts.

\* variant 2 with a dni that is missing in the first hour and 0 afterwards
MixedEntry(n) ==
    [MkEntry(n, None, 2) EXCEPT !.dni = [i \in 1..n |-> IF i = 1 THEN NaN ELSE Num(0)]]

ConfigEntries ==
    {MkEntry(n, None, variant) : n \in 0..MaxLen, variant \in 1..2}
        \cup {MixedEntry(n) : n \in 1..MaxLen}

\* database inverter, useStandByPowerInverter left at its default False
PlantE == [PlantB EXCEPT !.useStandByPowerInverter = FALSE]

\* modulesPerString, stringsPerInverter and numberOfInverters left at their default 0
PlantZ ==
    [PlantA EXCEPT !.modulesPerString = 0, !.stringsPerInverter = 0,
                   !.numberOfInverters = 0]

ConfigLists == UNION {[1..n -> {PlantB, PlantE, PlantZ}] : n \in 0..MaxPlants}

InitConfigs ==
    /\ pc = "start"
    /\ \E entry \in ConfigEntries, adjust \in BOOLEAN, recalc \in BOOLEAN :
          weatherData = NewWeatherData(Site0, adjust, recalc, 30, entry)
    /\ \E cfgs \in ConfigLists : plants = [i \in 1..Len(cfgs) |-> NewPlant(cfgs[i])]
    /\ keep_files \in BOOLEAN
    /\ idx = 1
    /\ log = <<>>
    /\ calls = <<>>
    /\ energy_results = None
    /\ summary_results = None
    /\ result = None
    /\ error = None
    /\ input0 = [weatherData |-> weatherData, plants |-> plants]
    /\ engine_calls = <<>>
    /\ metrics = None
    /\ IdleRead

SpecConfigs == InitConfigs /\ [][Next]_vars

\* the AC power of plant i before it is cleaned: numberOfInverters times the
\* inverter output (lines 126-134)
RawPower(i) ==
    LET cfg == plants[i].cfg
        p_mp == run_model(cfg, engine_weather(weatherData.df[1], cfg))
        inverter == get_modules_and_inverters(cfg).inverter[1]
    IN  [h \in 1..Len(p_mp) |->
            times_inverters(cfg.numberOfInverters,
                IF cfg.useInverterDatabase THEN sandia(p_mp[h], inverter)
                ELSE single_eta(p_mp[h], cfg.inverterEta))]

\* the energy [model units] of one record of cleaned power w out of size records
EnergyOf(w, size) == (w * HoursPerYear) \div size

\* C22: in the profile a simulated plant stores, a missing power value counts as
\* 0; with useStandByPowerInverter false no entry is negative, a negative power
\* counts as 0 and a non-negative power is kept; with useStandByPowerInverter
\* true a negative power is kept as it is.
C22_PowerCleaned ==
    \A i \in 1..Len(plants) :
        Assigned(plants[i]) =>
            LET E == plants[i].energyProfile[1]
                raw == RawPower(i)
                standby == plants[i].cfg.useStandByPowerInverter
            IN  /\ Len(E) = Len(raw)
                /\ \A h \in 1..Len(E) :
                      /\ IsNaN(raw[h]) => E[h] = 0
                      /\ ~standby => E[h] >= 0
                      /\ (raw[h].tag = "num" /\ raw[h].v >= 0) => E[h] = EnergyOf(raw[h].v, Len(E))
                      /\ (raw[h].tag = "num" /\ raw[h].v < 0 /\ ~standby) => E[h] = 0
                      /\ (raw[h].tag = "num" /\ raw[h].v < 0 /\ standby) =>
                            E[h] = EnergyOf(raw[h].v, Len(E)) /\ E[h] < 0

\* a missing and a negative power in one series, on a plant that ignores the
\* standby power and on one that keeps it
C22_Witness ==
    /\ Len(plants) = 2
    /\ plants[1].cfg = PlantE
    /\ plants[2].cfg = PlantB
    /\ Assigned(plants[1]) /\ Assigned(plants[2])
    /\ Len(RawPower(1)) = 2
    /\ IsNaN(RawPower(1)[1])
    /\ RawPower(1)[2].tag = "num" /\ RawPower(1)[2].v < 0
    /\ plants[1].energyProfile[1] = <<0, 0>>
    /\ plants[2].energyProfile[1][1] = 0
    /\ plants[2].energyProfile[1][2] < 0

\* ------------------------------------------------------------------------
\* read_in_dat_file: the header and the units of the records.

\* the header was scanned to its end without an error
HeaderScanned == rpc \in {"project", "read", "build", "done"}

\* the header lines the scan passes: the ones above the "***" line
ScannedLines ==
    LET header == TheFile.header
        stops == {i \in 1..Len(header) : header[i].start = "***"}
    IN  IF stops = {} THEN 1..Len(header)
        ELSE 1..((CHOOSE i \in stops : \A j \in stops : i <= j) - 1)

LinesStarting(key) == {i \in ScannedLines : TheFile.header[i].start = key}

\* the labelled lines of the header are those of GoodHeader, in any order and
\* with any other lines in between
LabelledAsGoodHeader ==
    \A key \in DOMAIN meta_keys :
        /\ Cardinality(LinesStarting(key)) = 1
        /\ \E i \in LinesStarting(key), j \in 1..Len(GoodHeader) :
              TheFile.header[i] = GoodHeader[j]

\* C23: once the header is scanned, each of Rechtswert, Hochwert, altitude and
\* kind is the value of the line that starts with its label (the integer in it,
\* for kind its text), wherever that line stands and whatever blank or
\* unlabelled lines stand around it, and is absent when no line starts with the
\* label; a header with the labelled lines of the usual header in any order
\* is scanned without an error and gives the values of the usual header.
C23_HeaderByLabel ==
    /\ (TheFile.readable /\ LabelledAsGoodHeader /\ rpc = "raised") => "TZ" \in DOMAIN metadata
    /\ HeaderScanned =>
          /\ \A key \in DOMAIN meta_keys :
                IF LinesStarting(key) = {} THEN meta_keys[key] \notin DOMAIN metadata
                ELSE \E i \in LinesStarting(key) :
                        metadata[meta_keys[key]] =
                            IF key = "Art des TRY" THEN TheFile.header[i].text
                            ELSE TheFile.header[i].digits[1]
          /\ LabelledAsGoodHeader =>
                /\ metadata["Rechtswert"] = 3936500
                /\ metadata["Hochwert"] = 2449500
                /\ metadata["altitude"] = 450
                /\ metadata["kind"] = "mittleres Jahr"

\* the usual header with its labelled lines reordered and a blank line inserted
C23_Witness ==
    /\ rpc = "done"
    /\ TheFile.header[1] = L_KIND
    /\ TheFile.header[2] = L_BLANK
    /\ TheFile.header[6] = L_RW
    /\ LabelledAsGoodHeader
    /\ metadata["Rechtswert"] = 3936500
    /\ metadata["kind"] = "mittleres Jahr"

ReadEntry == readResult[1].weatherData

\* C24: in the WeatherData read from a file, the record of every data row has
\* atmospheric_pressure = 100 times the row's p column, dhi = the row's D
\* column and ghi = the row's D column plus its B column.
C24_RecordUnits ==
    readResult # None =>
        /\ Len(ReadEntry.atmospheric_pressure) = TheFile.rows
        /\ Len(ReadEntry.dhi) = TheFile.rows
        /\ Len(ReadEntry.ghi) = TheFile.rows
        /\ \A i \in 1..TheFile.rows :
              LET p == Col("p", i, TheFile.variant)
                  D == Col("D", i, TheFile.variant)
                  B == Col("B", i, TheFile.variant)
              IN  /\ ReadEntry.atmospheric_pressure[i] = p * 100
                  /\ ReadEntry.dhi[i] = D
                  /\ ReadEntry.ghi[i] = D + B

\* a file read to the end, with a row of 958 hPa, D = 8 and B = 4
C24_Witness ==
    /\ rpc = "done"
    /\ readResult # None
    /\ Col("p", 4, TheFile.variant) = 958
    /\ Col("D", 4, TheFile.variant) = 8
    /\ Col("B", 4, TheFile.variant) = 4
    /\ ReadEntry.atmospheric_pressure[4] = 95800
    /\ ReadEntry.dhi[4] = 8
    /\ ReadEntry.ghi[4] = 12

\* ------------------------------------------------------------------------
\* simulate_pv_plants: which dataset operations a call runs.

\* the operations the two flags of the request ask for, in the order of the code
RequestedOps ==
    (IF input0.weatherData.adjustTimestamp THEN <<"adjust_time_stamp">> ELSE <<>>)
        \o (IF input0.weatherData.recalculateDNI THEN <<"recalculate_dni">> ELSE <<>>)

\* every timestamp of stamps moved by m minutes, at the UTC offset it had
ShiftedBy(stamps, m) ==
    [i \in 1..Len(stamps) |-> [t |-> stamps[i].t + m, off |-> stamps[i].off]]

\* C25: a call runs adjust_time_stamp exactly when adjustTimestamp is set,
\* whatever recalculateDNI is, and recalculate_dni exactly when recalculateDNI
\* is set, each at most once; the timestamps the plants are simulated on are the
\* shifted ones exactly when adjustTimestamp is set, and with both flags false
\* the dataset is the one handed in.
C25_FlagsSelectOperations ==
    /\ Len(OpsCalled) <= Len(RequestedOps)
    /\ \A i \in 1..Len(OpsCalled) : OpsCalled[i] = RequestedOps[i]
    /\ PastDataset =>
          /\ OpsCalled = RequestedOps
          /\ weatherData.weatherData.timeStamps =
                IF input0.weatherData.adjustTimestamp
                THEN ShiftedBy(TimeStamps0, Shift)
                ELSE TimeStamps0
    /\ RequestedOps = <<>> => weatherData = input0.weatherData

\* the shift requested without the recalculation, applied once before the plants
C25_Witness ==
    /\ input0.weatherData.adjustTimestamp
    /\ ~input0.weatherData.recalculateDNI
    /\ pc = "plants"
    /\ OpsCalled = <<"adjust_time_stamp">>
    /\ weatherData.weatherData.timeStamps # TimeStamps0
    /\ weatherData.weatherData.timeStamps = ShiftedBy(TimeStamps0, Shift)

\* ------------------------------------------------------------------------
\* WeatherData as an object: constructed, then adjust_time_stamp and
\* recalculate_dni called on it any number of times in any order
\* (interfaces/weather_data.py).

\* the number of calls one dataset receives
MaxCalls == 3

\* a WeatherEntry with all fourteen series of lines 11-25
FullEntry(n, tz, variant) ==
    LET e == MkEntry(n, tz, variant)
    IN  [c \in DOMAIN e \cup {"month", "day", "hour", "wind_direction", "wind_speed",
                              "sky_cover", "precipitable_water", "relative_humidity"} |->
            IF c \in DOMAIN e THEN e[c]
            ELSE IF c = "month" THEN [i \in 1..n |-> 1]
            ELSE IF c = "day" THEN [i \in 1..n |-> 1 + (e.timeStamps[i].t \div 1440)]
            ELSE IF c = "hour" THEN hours_of(to_datetime(e.timeStamps))
            ELSE IF c = "wind_direction" THEN [i \in 1..n |-> 90 * i]
            ELSE IF c = "relative_humidity" THEN [i \in 1..n |-> 50 + i]
            ELSE [i \in 1..n |-> i]]

FullEntries == {FullEntry(n, tz, variant) : n \in 0..MaxLen, tz \in {None, Some(60)},
                                            variant \in 1..2}

\* what pvlib.irradiance.dni hands back in the calls made on the object
ObjectDniSeries(n) == [1..n -> {NaN, Num(2)}]

InitDataset ==
    /\ pc = "dataset"
    /\ \E entry \in FullEntries, shift \in Timeshifts :
          weatherData = NewWeatherData(Site0, TRUE, TRUE, shift, entry)
    /\ input0 = [weatherData |-> weatherData, plants |-> <<>>]
    /\ calls = <<>>
    /\ error = None
    /\ plants = <<>>
    /\ idx = 1
    /\ keep_files = FALSE
    /\ log = <<>>
    /\ energy_results = None
    /\ summary_results = None
    /\ result = None
    /\ engine_calls = <<>>
    /\ metrics = None
    /\ IdleRead

DatasetUnchanged ==
    UNCHANGED <<pc, plants, keep_files, idx, log, energy_results, summary_results,
                result, input0, engine_calls, metrics, readVars>>

\* weatherData.adjust_time_stamp()
CallAdjust ==
    /\ pc = "dataset"
    /\ Len(calls) < MaxCalls
    /\ LET r == adjust_time_stamp(weatherData)
       IN  /\ calls' = Append(calls, Call("adjust_time_stamp", weatherData, None))
           /\ weatherData' = r.wd
           /\ error' = IF r.raised # None
                       THEN Some([stage |-> "adjust", exc |-> r.raised[1], plant_index |-> None])
                       ELSE None
    /\ DatasetUnchanged

\* weatherData.recalculate_dni(), pvlib handing back raw or raising
CallRecalc ==
    /\ pc = "dataset"
    /\ Len(calls) < MaxCalls
    /\ \/ \E raw \in ObjectDniSeries(Len(weatherData.df[1].ghi)) :
             /\ weatherData' = recalculate_dni(weatherData, raw)
             /\ calls' = Append(calls, Call("recalculate_dni", weatherData, Some(raw)))
             /\ error' = None
       \/ /\ calls' = Append(calls, Call("recalculate_dni", weatherData, None))
          /\ error' = Some([stage |-> "dni", exc |-> "pvlib: solar position or dni failed",
                            plant_index |-> None])
          /\ UNCHANGED weatherData
    /\ DatasetUnchanged

NextDataset == CallAdjust \/ CallRecalc

SpecDataset == InitDataset /\ [][NextDataset]_vars

\* the calls of adjust_time_stamp made so far
AdjustCalls == Cardinality({i \in 1..Len(calls) : calls[i].op = "adjust_time_stamp"})

\* C26: after k calls of adjust_time_stamp on one dataset, whatever else was
\* called in between, every timestamp is the one the dataset was constructed
\* with plus k times timeshiftInMinutes minutes: the shifts add up.
C26_ShiftAccumulates ==
    pc = "dataset" =>
        weatherData.weatherData.timeStamps = ShiftedBy(TimeStamps0, AdjustCalls * Shift)

\* three calls on a dataset of two records: three shifts
C26_Witness ==
    /\ pc = "dataset"
    /\ AdjustCalls = MaxCalls
    /\ Len(TimeStamps0) = 2
    /\ Shift = 30
    /\ weatherData.weatherData.timeStamps[1].t = TimeStamps0[1].t + 90
    /\ weatherData.weatherData.timeStamps[2].t = TimeStamps0[2].t + 90

\* the series an operation writes
Written(op) == IF op = "adjust_time_stamp" THEN "timeStamps" ELSE "dni"

\* C27: a call of adjust_time_stamp leaves every series but timeStamps as it
\* was (the stored month, day and hour lists included), a call of
\* recalculate_dni leaves every series but dni as it was, and both leave the
\* site data, the two flags, timeshiftInMinutes and the number of records of
\* every series as they were.
C27_OneSeriesPerOperation ==
    [][(pc = "dataset" /\ calls' # calls) =>
          LET op == calls'[Len(calls')].op
              old == weatherData.weatherData
              new == weatherData'.weatherData
          IN  /\ DOMAIN new = DOMAIN old
              /\ \A c \in DOMAIN old : Len(new[c]) = Len(old[c])
              /\ \A c \in DOMAIN old \ {Written(op)} : new[c] = old[c]
              /\ weatherData'.site = weatherData.site
              /\ weatherData'.adjustTimestamp = weatherData.adjustTimestamp
              /\ weatherData'.recalculateDNI = weatherData.recalculateDNI
              /\ weatherData'.timeshiftInMinutes = weatherData.timeshiftInMinutes]_vars

Entry0 == input0.weatherData.weatherData

\* both operations have acted: the timestamps are in another hour than the
\* stored hour list says, the dni is new, everything else is as constructed
C27_Witness ==
    /\ pc = "dataset"
    /\ OpsCalled = <<"adjust_time_stamp", "recalculate_dni">>
    /\ Len(TimeStamps0) = 2
    /\ weatherData.weatherData.timeStamps # TimeStamps0
    /\ weatherData.weatherData.dni # Entry0.dni
    /\ weatherData.weatherData.hour = Entry0.hour
    /\ hours_of(to_datetime(weatherData.weatherData.timeStamps)) # Entry0.hour
    /\ \A c \in DOMAIN Entry0 \ {"timeStamps", "dni"} : weatherData.weatherData[c] = Entry0[c]
    /\ weatherData.site = input0.weatherData.site

\* C30: the frame of a dataset always agrees with its entry: its index is the
\* entry's timeStamps and each column is the entry's series of that name, after
\* the construction and after every call of adjust_time_stamp and
\* recalculate_dni.
C30_FrameFollowsEntry ==
    pc = "dataset" =>
        /\ weatherData.df # None
        /\ weatherData.df[1].index = to_datetime(weatherData.weatherData.timeStamps)
        /\ to_list(weatherData.df[1].index) = weatherData.weatherData.timeStamps
        /\ DOMAIN weatherData.df[1] = DOMAIN weatherData.weatherData \cup {"index"}
        /\ \A c \in DOMAIN weatherData.weatherData :
              weatherData.df[1][c] = weatherData.weatherData[c]

\* a dataset changed by both operations, the later one a recalculation
C30_Witness ==
    /\ pc = "dataset"
    /\ Len(calls) = MaxCalls
    /\ calls[1].op = "adjust_time_stamp"
    /\ calls[MaxCalls].op = "recalculate_dni"
    /\ calls[MaxCalls].ret # None
    /\ Len(TimeStamps0) = 2
    /\ weatherData.weatherData.dni # Entry0.dni
    /\ weatherData.df[1].dni = weatherData.weatherData.dni
    /\ weatherData.df[1].index.values[1] = TimeStamps0[1].t + Shift

\* ------------------------------------------------------------------------
\* Aggregation: the divisors and the empty plant list.

\* C28: whenever the aggregation reads the plants, every plant's surfaceArea and
\* systemKWP, and the sums of both over all plants, are other than 0, so that no
\* division of the per-plant area profile, of generate_energy_profile_data_frame
\* or of generate_summary_data_frame has a divisor of 0.
C28_NoZeroDivisor ==
    AggregationReads =>
        /\ \A i \in 1..Len(plants) : AreaOf(plants[i]) # 0 /\ KwpOf(plants[i]).num # 0
        /\ SumOver([i \in 1..Len(plants) |-> AreaOf(plants[i])], Len(plants)) # 0
        /\ SumRatio([i \in 1..Len(plants) |-> KwpOf(plants[i])], Len(plants)).num # 0

\* C29: a call with an empty plant list never returns a result: it has no
\* summary and no result at any time, and once the dataset operations are
\* through it ends in the AxisError that generate_summary_data_frame raises.
C29_EmptyFleetRaises ==
    Len(input0.plants) = 0 =>
        /\ result = None
        /\ summary_results = None
        /\ pc \notin {"files", "build", "done"}
        /\ (pc = "raised" /\ PastDataset) =>
              error[1] = [stage |-> "summary", exc |-> "AxisError", plant_index |-> None]

\* the empty list got through the energy data frame and failed in the summary
C29_Witness ==
    /\ Len(input0.plants) = 0
    /\ Len(weatherData.weatherData.timeStamps) = 2
    /\ energy_results # None
    /\ pc = "raised"
    /\ error[1].stage = "summary"
    /\ result = None

====
